---------------------------- MODULE Spec2Model ----------------------------
(***************************************************************************)
(* Datadog::SynchronizedSamplePool: a bounded pool of Sample* handles kept *)
(* in a moodycamel::ConcurrentQueue.  take_sample() dequeues a handle or   *)
(* reports std::nullopt; return_sample(s) compares size_approx() with the  *)
(* capacity and either hands s back or enqueues it.                        *)
(*                                                                         *)
(* Granularity: one step per access to the shared queue.  take_sample has  *)
(* one access (try_dequeue); return_sample has two (size_approx, enqueue), *)
(* so another thread can run between its check and its enqueue.            *)
(***************************************************************************)
EXTENDS Integers, Sequences, FiniteSets, TLC

\* ------------------------------------------------------------- bounds ---
NumThreads == 2
MaxHandles == 3
MaxCapacity == 2

\* nullptr arguments that callers have in the pool or on offer at a time
MaxNulls == 1

\* completed calls a sequential run remembers
MaxHist == 2

\* ---------------------------------------------------------- constants ---
\* nullptr, the value take_sample gives its local before try_dequeue
NULL == 0

Threads == 1..NumThreads
MainThread == CHOOSE t \in Threads : TRUE
Handles == 1..MaxHandles
Pointers == Handles \cup {NULL}

\* std::optional<Sample*>: the empty optional and an optional holding x
nullopt == <<>>
Some(x) == <<x>>

VARIABLES
    pool,       \* the ConcurrentQueue<Sample*>: how many times each
                \* pointer is stored (the queue promises no order)
    capacity,   \* size_t capacity, set by the constructor
    pc,         \* per thread: "idle", "take", "ret_check", "ret_enq"
    sample,     \* per thread: the Sample* local / argument of its call
    returned,   \* the call that returned in the last step, if one did:
                \* its method and the std::optional it returned
    held,       \* per thread: how many times it holds each handle
    ledger,     \* per handle: accepted return_sample calls minus
                \* take_sample calls that returned it
    overlap,    \* TRUE once two return_sample calls were in progress at
                \* the same time
    hist        \* completed calls of a single-threaded run, oldest first

vars == <<pool, capacity, pc, sample, returned, held, ledger,
          overlap, hist>>

\* ------------------------------------------------------------ helpers ---
RECURSIVE SumOver(_, _)
SumOver(f, S) ==
    IF S = {} THEN 0
    ELSE LET x == CHOOSE y \in S : TRUE IN f[x] + SumOver(f, S \ {x})

\* ------------------------------------------- moodycamel::ConcurrentQueue
\* ConcurrentQueue(capacity): a queue with no element
EmptyQueue == [x \in Pointers |-> 0]

\* number of copies of x in the queue q
Copies(q, x) == q[x]

\* number of elements in the queue q
Size(q) == SumOver(q, Pointers)

\* size_approx(): the number of elements in the queue
size_approx(q) == Size(q)

\* enqueue(x): x becomes an element of the queue
enqueue(q, x) == [q EXCEPT ![x] = @ + 1]

\* try_dequeue(item): the elements a dequeue may remove; no order is
\* promised between elements enqueued by different threads
try_dequeue(q) == {x \in Pointers : q[x] > 0}

\* try_dequeue(item) removing x
Removed(q, x) == [q EXCEPT ![x] = @ - 1]

\* ------------------------------------------- the code of the two methods
\* variant: the nullptr test is missing
take_result_unchecked(s) == Some(s)

\* variant: the dequeued sample is dropped
take_result_dropped(s) == nullopt

\* take_sample, lines 140-144: nullptr means nothing was dequeued
take_result(s) == IF s = NULL THEN nullopt ELSE Some(s)

\* variant: > in place of >=
pool_full_strict(size, cap) == size > cap

\* variant: the test counts the sample being returned
pool_full_early(size, cap) == size + 1 >= cap

\* return_sample, line 152: the capacity test
pool_full(size, cap) == size >= cap

\* variant: the two return statements are swapped
rejected_result_empty(s) == nullopt

\* return_sample, line 153: the rejected sample goes back to the caller
rejected_result(s) == Some(s)

\* variant: the sample is returned although it was enqueued
accepted_result_echo(s) == Some(s)

\* return_sample, line 156: an accepted sample yields the empty optional
accepted_result(s) == nullopt

\* ------------------------------------------------------- caller's side
\* no call returned in the last step
NoReturn == [op |-> "none"]

\* method o returned r
Return(o, r) == [op |-> o, val |-> r]

\* the handle carried by an optional, NULL if it carries none
Carried(r) == IF r = nullopt THEN NULL ELSE r[1]

\* thread t is inside return_sample
InReturn(t) == pc[t] \in {"ret_check", "ret_enq"}

\* thread t is inside return_sample with handle h as the argument
Offering(t, h) == InReturn(t) /\ sample[t] = h

\* how many times h is checked out to thread t
CheckedOut(t, h) == held[t][h] + (IF Offering(t, h) THEN 1 ELSE 0)

\* h exists somewhere: stored, held, or being offered
Exists(h) ==
    \/ Copies(pool, h) > 0
    \/ \E t \in Threads : CheckedOut(t, h) > 0

\* number of handles thread t holds
NumHeld(t) == SumOver(held[t], Handles)

\* nullptr entries stored or being offered
NullsAround ==
    Copies(pool, NULL) + Cardinality({t \in Threads : Offering(t, NULL)})

\* the caller takes ownership of the handle a call hands it
Receive(t, r) ==
    IF Carried(r) \in Handles
    THEN [held EXCEPT ![t][Carried(r)] = @ + 1]
    ELSE held

\* ---------------------------------------------------------------- Init
\* SynchronizedSamplePool(_capacity): an empty queue and the capacity
Init ==
    /\ pool = EmptyQueue
    /\ capacity \in 0..MaxCapacity
    /\ pc = [t \in Threads |-> "idle"]
    /\ sample = [t \in Threads |-> NULL]
    /\ returned = NoReturn
    /\ held = [t \in Threads |-> [h \in Handles |-> 0]]
    /\ ledger = [h \in Handles |-> 0]
    /\ overlap = FALSE
    /\ hist = <<>>

\* ------------------------------------------------------------- actions
\* a thread works on one Sample at a time: holding none, it allocates one
\* that does not exist yet
Alloc(t) ==
    /\ pc[t] = "idle"
    /\ NumHeld(t) = 0
    /\ \E h \in Handles :
        /\ ~Exists(h)
        /\ held' = [held EXCEPT ![t][h] = 1]
    /\ returned' = NoReturn
    /\ UNCHANGED <<pool, capacity, pc, sample, ledger, overlap>>

\* the caller frees a Sample it holds
Dispose(t) ==
    /\ pc[t] = "idle"
    /\ \E h \in Handles :
        /\ held[t][h] > 0
        /\ held' = [held EXCEPT ![t][h] = @ - 1]
    /\ returned' = NoReturn
    /\ UNCHANGED <<pool, capacity, pc, sample, ledger, overlap>>

\* thread t, holding no Sample, calls take_sample(); line 136 sets its
\* local to nullptr
CallTake(t) ==
    /\ pc[t] = "idle"
    /\ NumHeld(t) = 0
    /\ pc' = [pc EXCEPT ![t] = "take"]
    /\ sample' = [sample EXCEPT ![t] = NULL]
    /\ returned' = NoReturn
    /\ UNCHANGED <<pool, capacity, held, ledger, overlap>>

\* variant: the sample is read from the queue but left in it
TakeSample_peek(t) ==
    /\ pc[t] = "take"
    /\ \E dequeued \in IF try_dequeue(pool) = {} THEN {sample[t]}
                       ELSE try_dequeue(pool) :
        /\ LET r == take_result(dequeued)
           IN  /\ pool' = pool
               /\ returned' = Return("take", r)
               /\ held' = Receive(t, r)
               /\ ledger' = IF Carried(r) \in Handles
                            THEN [ledger EXCEPT ![Carried(r)] = @ - 1]
                            ELSE ledger
    /\ sample' = [sample EXCEPT ![t] = NULL]
    /\ pc' = [pc EXCEPT ![t] = "idle"]
    /\ UNCHANGED <<capacity, overlap>>

\* take_sample(), lines 138-144: try_dequeue into the local, the nullptr
\* test and the return; dequeued is what try_dequeue left in the local
TakeSample(t) ==
    /\ pc[t] = "take"
    /\ \E dequeued \in IF try_dequeue(pool) = {} THEN {sample[t]}
                       ELSE try_dequeue(pool) :
        /\ LET r == take_result(dequeued)
           IN  /\ pool' = IF try_dequeue(pool) = {} THEN pool
                          ELSE Removed(pool, dequeued)
               /\ returned' = Return("take", r)
               /\ held' = Receive(t, r)
               /\ ledger' = IF Carried(r) \in Handles
                            THEN [ledger EXCEPT ![Carried(r)] = @ - 1]
                            ELSE ledger
    /\ sample' = [sample EXCEPT ![t] = NULL]
    /\ pc' = [pc EXCEPT ![t] = "idle"]
    /\ UNCHANGED <<capacity, overlap>>

\* thread t calls return_sample(s) with a handle it holds, or with nullptr
CallReturn(t) ==
    /\ pc[t] = "idle"
    /\ \E s \in Pointers :
        /\ s \in Handles => held[t][s] > 0
        /\ s = NULL => NullsAround < MaxNulls
        /\ sample' = [sample EXCEPT ![t] = s]
        /\ held' = IF s \in Handles
                   THEN [held EXCEPT ![t][s] = @ - 1]
                   ELSE held
    /\ pc' = [pc EXCEPT ![t] = "ret_check"]
    /\ overlap' = (overlap \/ \E u \in Threads \ {t} : InReturn(u))
    /\ returned' = NoReturn
    /\ UNCHANGED <<pool, capacity, ledger>>

\* variant: a full pool makes the caller wait for room
ReturnCheck_blocking(t) ==
    /\ pc[t] = "ret_check"
    /\ ~pool_full(size_approx(pool), capacity)
    /\ pc' = [pc EXCEPT ![t] = "ret_enq"]
    /\ returned' = NoReturn
    /\ UNCHANGED <<pool, capacity, sample, held, ledger, overlap>>

\* return_sample(), lines 152-153: the size test and the rejection
ReturnCheck(t) ==
    /\ pc[t] = "ret_check"
    /\ IF pool_full(size_approx(pool), capacity)
       THEN LET r == rejected_result(sample[t])
            IN  /\ returned' = Return("return", r)
                /\ held' = Receive(t, r)
                /\ sample' = [sample EXCEPT ![t] = NULL]
                /\ pc' = [pc EXCEPT ![t] = "idle"]
       ELSE /\ pc' = [pc EXCEPT ![t] = "ret_enq"]
            /\ returned' = NoReturn
            /\ UNCHANGED <<held, sample>>
    /\ UNCHANGED <<pool, capacity, ledger, overlap>>

\* variant: the sample is enqueued a second time
ReturnEnqueue_twice(t) ==
    /\ pc[t] = "ret_enq"
    /\ pool' = enqueue(enqueue(pool, sample[t]), sample[t])
    /\ returned' = Return("return", accepted_result(sample[t]))
    /\ held' = Receive(t, accepted_result(sample[t]))
    /\ ledger' = IF sample[t] \in Handles
                 THEN [ledger EXCEPT ![sample[t]] = @ + 1]
                 ELSE ledger
    /\ sample' = [sample EXCEPT ![t] = NULL]
    /\ pc' = [pc EXCEPT ![t] = "idle"]
    /\ UNCHANGED <<capacity, overlap>>

\* variant: the size test is repeated right before the enqueue
ReturnEnqueue_recheck(t) ==
    /\ pc[t] = "ret_enq"
    /\ IF pool_full(size_approx(pool), capacity)
       THEN /\ returned' = Return("return", rejected_result(sample[t]))
            /\ held' = Receive(t, rejected_result(sample[t]))
            /\ UNCHANGED <<pool, ledger>>
       ELSE /\ pool' = enqueue(pool, sample[t])
            /\ returned' = Return("return", accepted_result(sample[t]))
            /\ held' = Receive(t, accepted_result(sample[t]))
            /\ ledger' = IF sample[t] \in Handles
                         THEN [ledger EXCEPT ![sample[t]] = @ + 1]
                         ELSE ledger
    /\ sample' = [sample EXCEPT ![t] = NULL]
    /\ pc' = [pc EXCEPT ![t] = "idle"]
    /\ UNCHANGED <<capacity, overlap>>

\* return_sample(), lines 155-156: the enqueue and the empty optional
ReturnEnqueue(t) ==
    /\ pc[t] = "ret_enq"
    /\ pool' = enqueue(pool, sample[t])
    /\ LET r == accepted_result(sample[t])
       IN  /\ returned' = Return("return", r)
           /\ held' = Receive(t, r)
    /\ ledger' = IF sample[t] \in Handles
                 THEN [ledger EXCEPT ![sample[t]] = @ + 1]
                 ELSE ledger
    /\ sample' = [sample EXCEPT ![t] = NULL]
    /\ pc' = [pc EXCEPT ![t] = "idle"]
    /\ UNCHANGED <<capacity, overlap>>

\* ------------------------------------------------- concurrent behaviour
Step(t) ==
    \/ Alloc(t)
    \/ Dispose(t)
    \/ CallTake(t)
    \/ TakeSample(t)
    \/ CallReturn(t)
    \/ ReturnCheck(t)
    \/ ReturnEnqueue(t)

Next == \E t \in Threads : Step(t) /\ UNCHANGED hist

Spec == Init /\ [][Next]_vars

\* ------------------------------------------------- sequential behaviour
\* the last n elements of the sequence q
LastOf(q, n) == IF Len(q) <= n THEN q ELSE SubSeq(q, Len(q) - n + 1, Len(q))

\* the record of completed calls after a step of thread t: a call that
\* returned in the step is appended with its method, argument, result and
\* the queue before and after the step
Recorded(t) ==
    IF returned' = NoReturn THEN hist
    ELSE Append(hist, [op |-> returned'.op, arg |-> sample[t],
                       val |-> returned'.val,
                       before |-> pool, after |-> pool'])

\* single-threaded use: one thread makes every call, so every call completes
\* before the next one begins; the last MaxHist completed calls are kept
SeqNext ==
    /\ Step(MainThread)
    /\ hist' = LastOf(Recorded(MainThread), MaxHist)

SeqSpec == Init /\ [][SeqNext]_vars

\* ------------------------------------------------------- fill and drain
\* the scenario of the specification, for the capacity of the pool: one
\* thread returns capacity + 1 freshly allocated samples, then calls
\* take_sample capacity + 1 times, freeing what it cannot keep
Filling == Len(hist) <= capacity
Draining == Len(hist) > capacity /\ Len(hist) < 2 * capacity + 2

FillStep(t) ==
    \/ Filling /\ Alloc(t)
    \/ Filling /\ CallReturn(t) /\ sample'[t] \in Handles
    \/ ReturnCheck(t)
    \/ ReturnEnqueue(t)

DrainStep(t) ==
    \/ Draining /\ Dispose(t)
    \/ Draining /\ CallTake(t)
    \/ TakeSample(t)

FillDrainNext ==
    /\ FillStep(MainThread) \/ DrainStep(MainThread)
    /\ hist' = Recorded(MainThread)

FillDrainSpec == Init /\ [][FillDrainNext]_vars

\* ------------------------------------------------------- racing takes
\* threads reach any state of the pool; then, with some of them inside
\* take_sample and none inside return_sample, the race starts: the queue is
\* noted as the first entry of the record and only the pending take_sample
\* calls run, each recorded as it returns
Racing == hist # <<>>

RaceSetup == ~Racing /\ Next

StartRace ==
    /\ ~Racing
    /\ \E t \in Threads : pc[t] = "take"
    /\ \A t \in Threads : pc[t] \in {"idle", "take"}
    /\ hist' = <<[op |-> "race", arg |-> NULL, val |-> nullopt,
                  before |-> pool, after |-> pool]>>
    /\ UNCHANGED <<pool, capacity, pc, sample, returned, held, ledger,
                   overlap>>

RaceStep ==
    /\ Racing
    /\ \E t \in Threads : TakeSample(t) /\ hist' = Recorded(t)

TakeRaceNext == RaceSetup \/ StartRace \/ RaceStep

TakeRaceSpec == Init /\ [][TakeRaceNext]_vars

\* ---------------------------------------------------------- fair runs
\* a step of a call in progress; a thread that is scheduled keeps stepping
CallStep(t) ==
    /\ TakeSample(t) \/ ReturnCheck(t) \/ ReturnEnqueue(t)
    /\ UNCHANGED hist

FairSpec == Spec /\ \A t \in Threads : WF_vars(CallStep(t))

\* -------------------------------------------------------------- claims
\* number of entries of q that are handles (not nullptr)
NumHandles(q) == SumOver(q, Handles)

\* number of threads h is checked out to, with multiplicity
Checkouts(h) == SumOver([t \in Threads |-> CheckedOut(t, h)], Threads)

\* C1: under every interleaving, with callers returning only handles they
\* hold, no handle is checked out to two callers at the same time
C1_NoDoubleCheckout == \A h \in Handles : Checkouts(h) <= 1

\* a take_sample just handed out a handle that an earlier return_sample
\* stored, while another thread is returning a handle of its own
C1_Witness ==
    /\ returned.op = "take"
    /\ Carried(returned.val) \in Handles
    /\ \E t, u \in Threads :
        /\ pc[t] = "idle"
        /\ held[t][Carried(returned.val)] > 0
        /\ pc[u] = "ret_check"
        /\ sample[u] \in Handles

\* C2 as stated: in every reachable state the number of handles in the
\* pool is at most capacity
C2_Original == NumHandles(pool) <= capacity

\* C2 as amended: as long as no two return_sample calls have been in
\* progress at the same time (take_sample calls interleaving freely), the
\* number of entries in the pool is at most capacity
C2_BoundedWithoutRacingReturns == ~overlap => Size(pool) <= capacity

\* a return_sample just filled the pool to capacity while another thread
\* is inside take_sample, and no two returns have overlapped
C2_Witness ==
    /\ ~overlap
    /\ capacity >= 1
    /\ Size(pool) = capacity
    /\ returned.op = "return"
    /\ returned.val = nullopt
    /\ \E u \in Threads : pc[u] = "take"

\* C3: with NumThreads threads calling return_sample concurrently the pool
\* never holds more than capacity + NumThreads - 1 entries, and with
\* capacity 0 it holds none
C3_RaceMargin ==
    /\ Size(pool) <= capacity + NumThreads - 1
    /\ capacity = 0 => Size(pool) = 0

\* racing returns pushed the pool to the margin
C3_Witness ==
    /\ capacity >= 1
    /\ overlap
    /\ Size(pool) = capacity + NumThreads - 1

\* C4: in single-threaded sequential use the pool never holds more than
\* capacity entries
C4_SequentialBound == Size(pool) <= capacity

\* the pool is full and the last call was a rejected return_sample
C4_Witness ==
    /\ capacity >= 1
    /\ Size(pool) = capacity
    /\ Len(hist) > 0
    /\ hist[Len(hist)].op = "return"
    /\ hist[Len(hist)].val # nullopt

\* C5: for every handle, the copies in the store are the accepted returns
\* of it minus the takes that returned it: nothing lost, nothing doubled
C5_Conservation == \A h \in Handles : Copies(pool, h) = ledger[h]

\* returns raced past the capacity and a take just removed one handle
\* while another stays stored
C5_Witness ==
    /\ overlap
    /\ returned.op = "take"
    /\ Carried(returned.val) \in Handles
    /\ Size(pool) >= capacity
    /\ \E h \in Handles : Copies(pool, h) = 1

\* progress left in a call: steps it can still take before it returns
StepsLeft(p) ==
    CASE p = "idle" -> 0
      [] p = "take" -> 1
      [] p = "ret_enq" -> 1
      [] p = "ret_check" -> 2

\* C6: a started call is never disabled (no deadlock), every step a call
\* takes brings it nearer to its return (a bounded number of own steps),
\* and under fair scheduling of its thread every started call returns (no
\* thread stays inside a call for ever)
C6_NonBlocking ==
    /\ [](\A t \in Threads : pc[t] # "idle" => ENABLED CallStep(t))
    /\ [][\A t \in Threads :
            (pc[t] # "idle" /\ pc'[t] # pc[t])
                => StepsLeft(pc'[t]) < StepsLeft(pc[t])]_vars
    /\ \A t \in Threads : []<>(pc[t] = "idle")

\* every thread is inside a call at once, the pool being full
C6_Witness ==
    /\ \A t \in Threads : pc[t] # "idle"
    /\ \E t \in Threads : pc[t] = "ret_check"
    /\ \E t \in Threads : pc[t] = "take"
    /\ Size(pool) >= capacity

\* the i-th recorded call found the pool empty and returned a handle to it
ReturnOnEmpty(i) ==
    /\ hist[i].op = "return"
    /\ hist[i].arg \in Handles
    /\ hist[i].before = EmptyQueue

\* C7: single-threaded, on an empty pool with capacity >= 1, return_sample(h)
\* signals ok and the take_sample that follows it returns exactly h and
\* leaves the pool empty
C7_RoundTrip ==
    \A i \in 1..Len(hist) :
        (capacity >= 1 /\ ReturnOnEmpty(i)) =>
            /\ hist[i].val = nullopt
            /\ Size(hist[i].after) = 1
            /\ Copies(hist[i].after, hist[i].arg) = 1
            /\ (i < Len(hist) /\ hist[i + 1].op = "take") =>
                /\ hist[i + 1].val = Some(hist[i].arg)
                /\ hist[i + 1].after = EmptyQueue

\* a return on an empty pool was followed at once by a take
C7_Witness ==
    \E i \in 1..Len(hist) :
        /\ capacity >= 1
        /\ ReturnOnEmpty(i)
        /\ i < Len(hist)
        /\ hist[i + 1].op = "take"

\* C8: take_sample on a pool holding no handle returns the empty outcome,
\* never an optional carrying a pointer, and leaves the pool without handles
C8_EmptyTake ==
    [][\A t \in Threads :
        (pc[t] = "take" /\ pc'[t] = "idle" /\ NumHandles(pool) = 0) =>
            /\ returned' = Return("take", nullopt)
            /\ NumHandles(pool') = 0]_vars

\* a take_sample just returned empty from a pool that never holds an
\* entry, while a handle exists outside the pool
C8_Witness ==
    /\ capacity = 0
    /\ pool = EmptyQueue
    /\ returned = Return("take", nullopt)
    /\ \E t \in Threads : NumHeld(t) > 0

\* the first n recorded calls are return_sample calls with distinct handles
IsFill(n) ==
    /\ n <= Len(hist)
    /\ \A i \in 1..n : hist[i].op = "return" /\ hist[i].arg \in Handles
    /\ \A i, j \in 1..n : i # j => hist[i].arg # hist[j].arg

\* the recorded calls from position m to n are take_sample calls
IsDrain(m, n) ==
    /\ n <= Len(hist)
    /\ \A i \in m..n : hist[i].op = "take"

\* C9: sequential fill-and-drain from the empty pool of capacity C: the
\* first C returns of distinct handles are accepted and the next is
\* rejected; the C takes that follow return each accepted handle exactly
\* once and the take after them returns empty
C9_FillAndDrain ==
    LET C == capacity
    IN  /\ \A n \in 1..(C + 1) :
            IsFill(n) =>
                IF n <= C THEN hist[n].val = nullopt
                ELSE hist[n].val = Some(hist[n].arg)
        /\ \A n \in (C + 2)..(2 * C + 2) :
            (IsFill(C + 1) /\ IsDrain(C + 2, n)) =>
                IF n <= 2 * C + 1
                THEN /\ Carried(hist[n].val) \in {hist[i].arg : i \in 1..C}
                     /\ \A m \in (C + 2)..(n - 1) : hist[m].val # hist[n].val
                ELSE hist[n].val = nullopt

\* the whole scenario ran on a pool of capacity 2
C9_Witness ==
    /\ capacity = 2
    /\ IsFill(3)
    /\ IsDrain(4, 6)

\* C10: a rejected return_sample hands back exactly the handle offered,
\* returns normally, and leaves the stored handles and the capacity as
\* they were
C10_Rejection ==
    [][\A t \in Threads :
        (pc[t] = "ret_check" /\ pc'[t] = "idle") =>
            /\ returned' = Return("return", Some(sample[t]))
            /\ pool' = pool
            /\ capacity' = capacity]_vars

\* a handle was just rejected by a full pool of capacity >= 1
C10_Witness ==
    /\ capacity >= 1
    /\ returned.op = "return"
    /\ Carried(returned.val) \in Handles
    /\ Size(pool) >= capacity

\* C11: in sequential use return_sample signals ok exactly when the pool
\* holds fewer than capacity entries before the call; an accepted sample is
\* in the store afterwards and the occupancy has grown by exactly one
C11_AcceptIffBelowCapacity ==
    \A i \in 1..Len(hist) :
        hist[i].op = "return" =>
            /\ hist[i].val = nullopt <=> Size(hist[i].before) < capacity
            /\ hist[i].val = nullopt =>
                /\ Copies(hist[i].after, hist[i].arg)
                     = Copies(hist[i].before, hist[i].arg) + 1
                /\ Size(hist[i].after) = Size(hist[i].before) + 1

\* a return was accepted into a pool one short of full, and the return
\* after it was rejected
C11_Witness ==
    /\ Len(hist) >= 2
    /\ capacity >= 2
    /\ hist[1].op = "return"
    /\ hist[1].val = nullopt
    /\ Size(hist[1].before) = capacity - 1
    /\ hist[2].op = "return"
    /\ hist[2].val # nullopt

\* thread t completes take_sample in this step
TakeReturns(t) == pc[t] = "take" /\ pc'[t] = "idle"

\* the step handed out a handle that was in the store and removed one entry
TookStoredHandle ==
    /\ returned'.op = "take"
    /\ Carried(returned'.val) \in Handles
    /\ Copies(pool, Carried(returned'.val)) > 0
    /\ Size(pool') = Size(pool) - 1

\* C12 as stated: whenever the store holds at least one handle when
\* take_sample attempts its removal, take_sample returns a handle that was
\* in the store and the occupancy decreases by exactly one
C12_Original ==
    [][\A t \in Threads :
        (TakeReturns(t) /\ NumHandles(pool) >= 1) => TookStoredHandle]_vars

\* C12 as amended: the same, provided the store holds no nullptr entry at
\* that moment
C12_TakeFromStockedPool ==
    [][\A t \in Threads :
        (TakeReturns(t) /\ NumHandles(pool) >= 1 /\ Copies(pool, NULL) = 0)
            => TookStoredHandle]_vars

\* a take_sample just took one of several stored handles while another
\* thread is between the size test and the enqueue of return_sample
C12_Witness ==
    /\ returned.op = "take"
    /\ Carried(returned.val) \in Handles
    /\ NumHandles(pool) >= 1
    /\ Copies(pool, NULL) = 0
    /\ \E u \in Threads : pc[u] = "ret_enq"

\* C13: with callers returning only handles they hold, no handle is in the
\* store more than once, under any interleaving
C13_StoredOnce == \A h \in Handles : Copies(pool, h) <= 1

\* racing returns left the store above capacity with distinct handles and
\* every call has returned
C13_Witness ==
    /\ Size(pool) > capacity
    /\ NumHandles(pool) >= 2
    /\ \E h \in Handles : Copies(pool, h) = 1 /\ ledger[h] = 1
    /\ \A t \in Threads : pc[t] = "idle"

\* thread t completes a call in this step
CallReturns(t) == pc[t] # "idle" /\ pc'[t] = "idle"

\* C14: with capacity 0, under any interleaving, the pool never holds an
\* entry, every return_sample is rejected and hands its argument back, and
\* every take_sample returns empty
C14_ZeroCapacity ==
    /\ [](capacity = 0 => pool = EmptyQueue)
    /\ [][\A t \in Threads :
            (capacity = 0 /\ CallReturns(t)) =>
                IF pc[t] = "take"
                THEN returned' = Return("take", nullopt)
                ELSE /\ pc[t] = "ret_check"
                     /\ returned' = Return("return", Some(sample[t]))]_vars

\* with capacity 0 a handle was just rejected while another thread is
\* inside return_sample as well
C14_Witness ==
    /\ capacity = 0
    /\ returned.op = "return"
    /\ Carried(returned.val) \in Handles
    /\ \E u \in Threads : InReturn(u)

\* thread t takes a step of its call
Advances(t) == pc'[t] # pc[t]

\* C15: under concurrency the outcome of return_sample is decided by the
\* occupancy its size test observes and by nothing later: the test sends
\* the call to the enqueue exactly when the occupancy is below capacity and
\* rejects otherwise, and a call past the test enqueues and signals ok
\* whatever the occupancy has become
C15_DecidedAtSizeTest ==
    [][\A t \in Threads :
        /\ (pc[t] = "ret_check" /\ Advances(t)) =>
              IF Size(pool) < capacity
              THEN pc'[t] = "ret_enq" /\ pool' = pool
              ELSE /\ pc'[t] = "idle"
                   /\ returned' = Return("return", Some(sample[t]))
        /\ (pc[t] = "ret_enq" /\ Advances(t)) =>
              /\ pc'[t] = "idle"
              /\ returned' = Return("return", nullopt)
              /\ Copies(pool', sample[t]) = Copies(pool, sample[t]) + 1]_vars

\* a return was just accepted although concurrent returns had filled the
\* pool after its size test, while a handle is checked out
C15_Witness ==
    /\ returned = Return("return", nullopt)
    /\ Size(pool) > capacity
    /\ \E t \in Threads : NumHeld(t) > 0

Min(a, b) == IF a <= b THEN a ELSE b

\* the race started on a queue of distinct handles and no nullptr
RaceOnDistinctHandles ==
    /\ Racing
    /\ hist[1].op = "race"
    /\ Copies(hist[1].before, NULL) = 0
    /\ \A h \in Handles : Copies(hist[1].before, h) <= 1

\* positions in the record of the racing takes that returned something
RaceWinners == {i \in 2..Len(hist) : hist[i].val # nullopt}

\* C16: of the take_sample calls racing on a pool of m distinct handles
\* with no return_sample running, min(k, m) of the first k to return get a
\* handle, the handles are stored ones and pairwise distinct, the other
\* calls return empty, and the pool is left with m - min(k, m) handles
C16_RacingTakes ==
    RaceOnDistinctHandles =>
        LET m == Size(hist[1].before)
            k == Len(hist) - 1
        IN  /\ Cardinality(RaceWinners) = Min(k, m)
            /\ \A i \in RaceWinners :
                 Copies(hist[1].before, Carried(hist[i].val)) = 1
            /\ \A i, j \in RaceWinners :
                 i # j => hist[i].val # hist[j].val
            /\ Size(pool) = m - Min(k, m)
            /\ NumHandles(pool) = Size(pool)

\* a race of more takes than stored handles is over: one call got the
\* handle and another returned empty
C16_Witness ==
    /\ RaceOnDistinctHandles
    /\ Size(hist[1].before) >= 1
    /\ Len(hist) - 1 > Size(hist[1].before)
    /\ \A t \in Threads : pc[t] = "idle"

\* the i-th recorded call is a take_sample that removed a nullptr entry
TookNull(i) ==
    /\ hist[i].op = "take"
    /\ Copies(hist[i].after, NULL) < Copies(hist[i].before, NULL)

\* C17: return_sample does not validate its argument: nullptr offered
\* below capacity is stored and counts toward the occupancy, and the
\* take_sample that dequeues it reports empty while removing the entry
C17_NullIsStored ==
    \A i \in 1..Len(hist) :
        /\ (/\ hist[i].op = "return"
            /\ hist[i].arg = NULL
            /\ Size(hist[i].before) < capacity) =>
               /\ hist[i].val = nullopt
               /\ Copies(hist[i].after, NULL)
                    = Copies(hist[i].before, NULL) + 1
               /\ Size(hist[i].after) = Size(hist[i].before) + 1
        /\ TookNull(i) =>
               /\ hist[i].val = nullopt
               /\ Size(hist[i].after) = Size(hist[i].before) - 1

\* nullptr was accepted into a pool that holds a handle, and the next call,
\* a take_sample, removed it and returned empty with the handle still stored
C17_Witness ==
    /\ Len(hist) = 2
    /\ hist[1].op = "return"
    /\ hist[1].arg = NULL
    /\ hist[1].val = nullopt
    /\ TookNull(2)
    /\ hist[2].val = nullopt
    /\ NumHandles(hist[2].after) >= 1

\* change of the occupancy in a step
Growth == Size(pool') - Size(pool)

\* C18: no step of take_sample or return_sample changes the capacity, and
\* a call changes the number of stored entries by at most one: take_sample
\* by 0 or -1; return_sample by 0 at its size test and by +1 at its enqueue
C18_Frame ==
    [][/\ capacity' = capacity
       /\ \A t \in Threads :
            /\ (pc[t] = "take" /\ Advances(t)) => Growth \in {-1, 0}
            /\ (pc[t] = "ret_check" /\ Advances(t)) => Growth = 0
            /\ (pc[t] = "ret_enq" /\ Advances(t)) => Growth = 1
            /\ (pc[t] = "idle" /\ Advances(t)) => Growth = 0]_vars

\* the pool of the largest capacity is one short of full right after a
\* take_sample removed a handle from it
C18_Witness ==
    /\ capacity = MaxCapacity
    /\ returned.op = "take"
    /\ Carried(returned.val) \in Handles
    /\ Size(pool) = capacity - 1

=============================================================================
